---------------------------- MODULE Spec2Model ----------------------------
(***************************************************************************)
(* Products API (backend/create_departments_table.py): the FastAPI         *)
(* handlers, the query layer, the pagination arithmetic and the psycopg2   *)
(* connection pool around them.                                            *)
(*                                                                         *)
(* Scheduling.  Every endpoint is an `async def` whose body contains no    *)
(* await: the event loop runs one handler body at a time, from its first   *)
(* line to its response.  Requests that have arrived wait in `pending`     *)
(* until the loop is free.  The relational store is a separate process:    *)
(* its writers interleave with the queries of a handler, so a handler is   *)
(* modelled as a sequence of steps (acquire, execute, release, resume).    *)
(***************************************************************************)
EXTENDS Integers, Sequences, FiniteSets

(***************************************************************************)
(* Bounds of the model.                                                    *)
(***************************************************************************)
MaxProducts == 3        \* product ids range over 1..MaxProducts
MaxSmallPage == 3       \* small page numbers tried: 0..MaxSmallPage
MaxSmallLimit == 2      \* small limits tried: 0..MaxSmallLimit
MaxInFlight == 21       \* requests that may be waiting for the event loop

(***************************************************************************)
(* Program constants.                                                      *)
(***************************************************************************)
minconn == 1                    \* SimpleConnectionPool(minconn=1, ...)
maxconn == 20                   \* SimpleConnectionPool(..., maxconn=20)
MaxLimit == 100                 \* Query(10, ge=1, le=100)
MaxPageNumber == 1000000        \* if page > 1000000
PgIntegerMax == 2147483647      \* if product_id > 2147483647

ProductIds == 1..MaxProducts
DeptIds == {1, 2}

Pages == (0..MaxSmallPage) \cup {MaxPageNumber, MaxPageNumber + 1}
Limits == (0..MaxSmallLimit) \cup {MaxLimit, MaxLimit + 1}
Min(a, b) == IF a <= b THEN a ELSE b

(***************************************************************************)
(* A path id is a Python int, which has no upper limit.  Ids are kept as   *)
(* two limbs, value = hi * 2^16 + lo with 0 <= lo < 2^16, so that ids      *)
(* above 2^31 - 1 exist in the model.                                      *)
(***************************************************************************)
LimbBase == 2 ^ 16

Wide(n) == [hi |-> n \div LimbBase, lo |-> n % LimbBase]

WideSucc(w) ==
    IF w.lo + 1 = LimbBase THEN [hi |-> w.hi + 1, lo |-> 0]
    ELSE [hi |-> w.hi, lo |-> w.lo + 1]

WideLess(a, b) == a.hi < b.hi \/ (a.hi = b.hi /\ a.lo < b.lo)

\* the value of an id that fits a machine integer
Narrow(w) == w.hi * LimbBase + w.lo

RequestIds ==
    {Wide(n) : n \in -1..(MaxProducts + 1)}
        \cup {Wide(PgIntegerMax), WideSucc(Wide(PgIntegerMax))}
RequestDeptIds == {Wide(n) : n \in 0..3}

(***************************************************************************)
(* The store's rows.  products.department is a nullable foreign key to     *)
(* departments.id (0 stands for NULL); the listing queries resolve it to   *)
(* the department's name with a join.                                      *)
(***************************************************************************)
DepartmentName(d) == IF d = 1 THEN "Women" ELSE IF d = 2 THEN "Men" ELSE "NULL"

ProductDepartment(i) == i % 3

ProductRow(i) ==
    [id |-> i, department |-> DepartmentName(ProductDepartment(i))]

DepartmentRow(depts, d) ==
    [id |-> d, name |-> DepartmentName(d), product_count |-> depts[d]]

\* the same query ordered the other way round (ORDER BY p.id DESC)
RECURSIVE OrderByIdMutant(_)
OrderByIdMutant(S) ==
    IF S = {} THEN << >>
    ELSE LET m == CHOOSE x \in S : \A y \in S : x >= y
         IN  <<m>> \o OrderByIdMutant(S \ {m})

\* ORDER BY id ASC over a set of ids
RECURSIVE OrderById(_)
OrderById(S) ==
    IF S = {} THEN << >>
    ELSE LET m == CHOOSE x \in S : \A y \in S : x <= y
         IN  <<m>> \o OrderById(S \ {m})

RECURSIVE MapRows(_)
MapRows(ids) ==
    IF ids = << >> THEN << >>
    ELSE <<ProductRow(Head(ids))>> \o MapRows(Tail(ids))

RECURSIVE MapDepartments(_, _)
MapDepartments(depts, ids) ==
    IF ids = << >> THEN << >>
    ELSE <<DepartmentRow(depts, Head(ids))>> \o MapDepartments(depts, Tail(ids))

\* LIMIT %s OFFSET %s applied to an ordered result (limit >= 0, offset >= 0)
LimitOffsetMutant(rows, limit, offset) ==
    SubSeq(rows, offset + 1, Min(offset + limit - 1, Len(rows)))

LimitOffset(rows, limit, offset) ==
    SubSeq(rows, offset + 1, Min(offset + limit, Len(rows)))

\* SELECT COUNT(*) FROM products
CountProducts(products) == Cardinality(products)

\* SELECT ... FROM products p LEFT JOIN departments d ... ORDER BY p.id ASC
\* LIMIT %s OFFSET %s
SelectProductsPage(products, limit, offset) ==
    LimitOffset(MapRows(OrderById(products)), limit, offset)

\* SELECT ... FROM products p JOIN departments d ... WHERE d.id = %s ORDER BY p.id
SelectProductsByDepartment(products, d) ==
    MapRows(OrderById({i \in products : ProductDepartment(i) = d}))

\* SELECT id, department_name as name, product_count FROM departments ORDER BY id
SelectDepartments(depts) == MapDepartments(depts, OrderById(DOMAIN depts))

(***************************************************************************)
(* Pagination arithmetic and input checks of the handlers.                 *)
(***************************************************************************)
\* page: int = Query(1, ge=1), limit: int = Query(10, ge=1, le=100)
ValidQueryMutant(page, limit) == page >= 0 /\ limit >= 0 /\ limit <= MaxLimit

ValidQuery(page, limit) == page >= 1 /\ limit >= 1 /\ limit <= MaxLimit

PageTooLargeMutant(page) == page > 10 * MaxPageNumber

PageTooLarge(page) == page > MaxPageNumber

OffsetMutant(page, limit) == page * limit

Offset(page, limit) == (page - 1) * limit

TotalPagesMutant(total_products, limit) == total_products \div limit

TotalPages(total_products, limit) == (total_products + limit - 1) \div limit

PageOutOfRangeMutant(page, total_pages) == page > total_pages + 1

PageOutOfRange(page, total_pages) == page > total_pages

\* if product_id <= 0 ... if product_id > 2147483647
InvalidProductIdMutant(product_id) ==
    \/ WideLess(product_id, Wide(0))
    \/ WideLess(WideSucc(Wide(PgIntegerMax)), product_id)

InvalidProductId(product_id) ==
    \/ ~WideLess(Wide(0), product_id)
    \/ WideLess(Wide(PgIntegerMax), product_id)

(***************************************************************************)
(* Texts.  An exception carries the text str(e) gives; the handlers'       *)
(* own messages are the literals of the source (f-string fields elided).   *)
(***************************************************************************)
ExceptionText(kind) ==
    IF kind = "db" THEN "server closed the connection unexpectedly"
    ELSE IF kind = "pool" THEN "connection pool exhausted"
    ELSE IF kind = "other" THEN "unexpected failure"
    ELSE ""

NoPagination ==
    [current_page |-> 0, total_pages |-> 0, total_products |-> 0,
     has_next_page |-> FALSE, has_prev_page |-> FALSE, limit |-> 0, offset |-> 0]

\* A response: the status and the JSON body.  shape is "envelope" for a
\* top-level {success, data | error}; "detail_object" for {"detail": {success,
\* error}}; "detail_string" for {"detail": "<message>"}; "detail_list" for
\* {"detail": [...]}; "bare" for any other top-level object; "none" while no
\* response has been produced.  error is the message the body carries.
Response(status, shape, success, error) ==
    [status |-> status, shape |-> shape, success |-> success, error |-> error,
     products |-> << >>, pagination |-> NoPagination,
     departments |-> << >>, department |-> ""]

NoResponse == Response(0, "none", FALSE, "")

\* raise HTTPException(status_code, detail): the registered status handlers
\* (422, 404) replace the body; any other status gets FastAPI's default
\* {"detail": detail}.  The handler registered for 500 serves uncaught
\* exceptions only, never an HTTPException.
RenderHTTPException(status, detail_shape, error) ==
    IF status = 404 THEN Response(404, "envelope", FALSE, "Endpoint not found")
    ELSE IF status = 422 THEN Response(422, "envelope", FALSE, "Invalid input parameters")
    ELSE Response(status, detail_shape, FALSE, error)

\* A query parameter that fails its Query(...) constraint: FastAPI raises
\* RequestValidationError before the handler body runs and answers 422
\* {"detail": [...]} (the handler registered for status 422 serves
\* HTTPException only).
RenderValidationError == Response(422, "detail_list", FALSE, "validation error")

(***************************************************************************)
(* State.                                                                  *)
(***************************************************************************)
VARIABLES
    phase,          \* "init", "serving", "failed", "stopped": lifespan's position
    pool,           \* connection_pool: state "none" (None), "open" or "closed",
                    \* and its connections in use and idle
    products,       \* ids of the rows of table products
    departments,    \* table departments: id -> product_count (precomputed)
    pending,        \* requests that arrived and wait for the event loop
    req             \* the request whose handler is running (pc = "idle": none)

vars == <<phase, pool, products, departments, pending, req>>

NoRequest ==
    [endpoint |-> "none", page |-> 0, limit |-> 0, id |-> Wide(0),
     pc |-> "idle", op |-> "none",
     held |-> 0, broken |-> FALSE, exc |-> "none",
     offset |-> 0, total_products |-> 0, rows |-> << >>, depts |-> << >>,
     queries |-> << >>, acquired |-> 0, logged |-> FALSE,
     resp |-> NoResponse]

NewRequest(endpoint, page, limit, id) ==
    [NoRequest EXCEPT !.endpoint = endpoint, !.page = page, !.limit = limit,
                      !.id = id, !.pc = "handler"]

\* the handler answers: the response is complete
Respond(r, resp) == [r EXCEPT !.pc = "done", !.resp = resp]

\* the handler calls a query-layer function (or, for /health, opens the
\* scoped connection itself)
Call(r, op) == [r EXCEPT !.pc = "acquire", !.op = op, !.exc = "none"]

Init ==
    /\ phase = "init"
    /\ pool = [state |-> "none", used |-> 0, idle |-> 0]
    /\ products \in SUBSET ProductIds
    /\ departments =     \* counted once, when every product id had a row
         [d \in DeptIds |-> Cardinality({i \in ProductIds : ProductDepartment(i) = d})]
    /\ pending = 0
    /\ req = NoRequest

(***************************************************************************)
(* lifespan: startup creates the pool (minconn connections are opened by   *)
(* the constructor) or fails and re-raises; shutdown closes it.            *)
(***************************************************************************)
StartupOk ==
    /\ phase = "init"
    /\ phase' = "serving"
    /\ pool' = [state |-> "open", used |-> 0, idle |-> minconn]
    /\ UNCHANGED <<products, departments, pending, req>>

\* the same except clause without its raise: the error is logged and the
\* application goes on to serve with connection_pool = None
StartupFailsMutant ==
    /\ phase = "init"
    /\ phase' = "serving"
    /\ UNCHANGED <<pool, products, departments, pending, req>>

StartupFails ==
    /\ phase = "init"
    /\ phase' = "failed"
    /\ UNCHANGED <<pool, products, departments, pending, req>>

Shutdown ==
    /\ phase = "serving"
    /\ req.pc = "idle"
    /\ pending = 0
    /\ phase' = "stopped"
    /\ pool' = [state |-> "closed", used |-> 0, idle |-> 0]
    /\ UNCHANGED <<products, departments, pending, req>>

(***************************************************************************)
(* Requests arrive at any time while the server runs; the event loop       *)
(* starts a handler only when no other handler body is running.            *)
(***************************************************************************)
Arrive ==
    /\ phase = "serving"
    /\ pending < MaxInFlight
    /\ pending' = pending + 1
    /\ UNCHANGED <<phase, pool, products, departments, req>>

InFlight == pending + (IF req.pc = "idle" THEN 0 ELSE 1)

LoopFree == phase = "serving" /\ req.pc = "idle" /\ pending > 0

(***************************************************************************)
(* The store's other clients: rows of products are inserted and deleted    *)
(* out of band.  product_count is not maintained by them.                  *)
(***************************************************************************)
ExternalInsert ==
    /\ phase = "serving"
    /\ \E i \in ProductIds \ products : products' = products \cup {i}
    /\ UNCHANGED <<phase, pool, departments, pending, req>>

ExternalDelete ==
    /\ phase = "serving"
    /\ \E i \in products : products' = products \ {i}
    /\ UNCHANGED <<phase, pool, departments, pending, req>>

(***************************************************************************)
(* get_db_connection and the query layer.  A query-layer function is       *)
(*   try: with get_db_connection() as conn: execute; return fetch          *)
(*   except ...: logger.error(...); raise                                  *)
(* and get_db_connection is                                                *)
(*   try: connection = pool.getconn(); yield connection                    *)
(*   except: if connection: connection.rollback(); raise                   *)
(*   finally: if connection: pool.putconn(connection)                      *)
(***************************************************************************)
\* the query-layer functions log what they re-raise; /health uses the scoped
\* connection directly and logs nothing
QueryLayerLogs(op) == op # "health"

\* the exception leaves the query-layer function
Raise(r, kind) ==
    [r EXCEPT !.pc = "resume", !.exc = kind,
              !.logged = r.logged \/ QueryLayerLogs(r.op)]

\* connection_pool.getconn(): AttributeError on None and PoolError on a closed
\* pool; else an idle connection if there is one; PoolError when maxconn are
\* in use; else a new connection, whose connect may fail.
\* getconn raising leaves connection = None: nothing to roll back or put.
GetConn ==
    /\ req.pc = "acquire"
    /\ IF pool.state # "open"
       THEN /\ pool' = pool
            /\ req' = Raise(req, IF pool.state = "none" THEN "other" ELSE "pool")
       ELSE IF pool.idle > 0
       THEN /\ pool' = [pool EXCEPT !.used = pool.used + 1, !.idle = pool.idle - 1]
            /\ req' = [req EXCEPT !.pc = "execute", !.held = req.held + 1,
                                  !.acquired = req.acquired + 1]
       ELSE IF pool.used >= maxconn
       THEN /\ pool' = pool
            /\ req' = Raise(req, "pool")
       ELSE \E connected \in BOOLEAN :
              IF connected
              THEN /\ pool' = [pool EXCEPT !.used = pool.used + 1]
                   /\ req' = [req EXCEPT !.pc = "execute", !.held = req.held + 1,
                                         !.acquired = req.acquired + 1]
              ELSE /\ pool' = pool
                   /\ req' = Raise(req, "db")
    /\ UNCHANGED <<phase, products, departments, pending>>

\* what cursor.execute + fetch return for the operation, from the store as it
\* is now
Fetched(r) ==
    IF r.op = "count" THEN [r EXCEPT !.total_products = CountProducts(products)]
    ELSE IF r.op = "list"
         THEN [r EXCEPT !.rows = SelectProductsPage(products, r.limit, r.offset)]
    ELSE IF r.op = "byid"
         THEN [r EXCEPT !.rows = IF Narrow(r.id) \in products
                                 THEN <<ProductRow(Narrow(r.id))>> ELSE << >>]
    ELSE IF r.op = "depts"
         THEN [r EXCEPT !.depts = SelectDepartments(departments)]
    ELSE IF r.op = "dept"
         THEN [r EXCEPT !.depts = IF Narrow(r.id) \in DOMAIN departments
                                  THEN <<DepartmentRow(departments, Narrow(r.id))>>
                                  ELSE << >>]
    ELSE IF r.op = "deptproducts"
         THEN [r EXCEPT !.rows = SelectProductsByDepartment(products, Narrow(r.id))]
    ELSE r

\* cursor.execute(...): the query is issued; it answers, or raises a
\* psycopg2.Error (the connection may be lost with it), or something else
\* goes wrong inside the with block.  The store refuses a negative OFFSET.
\* the same step with a department listing that refreshes product_count
\* from the live rows (an UPDATE next to the SELECT)
ExecuteMutant ==
    /\ req.pc = "execute"
    /\ \E outcome \in {"ok", "db", "other"}, lost \in BOOLEAN :
         LET issued == [req EXCEPT !.pc = "release",
                                   !.queries = Append(req.queries, req.op)]
             recount == [d \in DOMAIN departments |->
                           Cardinality({i \in products : ProductDepartment(i) = d})]
         IN  IF outcome = "ok" /\ ~(req.op = "list" /\ req.offset < 0)
             THEN /\ ~lost
                  /\ departments' = IF req.op = "depts" THEN recount ELSE departments
                  /\ req' = IF req.op = "depts"
                            THEN [issued EXCEPT !.depts = SelectDepartments(recount)]
                            ELSE Fetched(issued)
             ELSE IF outcome = "other"
             THEN /\ ~lost
                  /\ departments' = departments
                  /\ req' = [issued EXCEPT !.exc = "other"]
             ELSE /\ (outcome = "ok" => ~lost)
                  /\ departments' = departments
                  /\ req' = [issued EXCEPT !.exc = "db", !.broken = lost]
    /\ UNCHANGED <<phase, pool, products, pending>>

Execute ==
    /\ req.pc = "execute"
    /\ \E outcome \in {"ok", "db", "other"}, lost \in BOOLEAN :
         LET issued == [req EXCEPT !.pc = "release",
                                   !.queries = Append(req.queries, req.op)]
         IN  IF outcome = "ok" /\ ~(req.op = "list" /\ req.offset < 0)
             THEN /\ ~lost
                  /\ req' = Fetched(issued)
             ELSE IF outcome = "other"
             THEN /\ ~lost
                  /\ req' = [issued EXCEPT !.exc = "other"]
             ELSE /\ (outcome = "ok" => ~lost)
                  /\ req' = [issued EXCEPT !.exc = "db", !.broken = lost]
    /\ UNCHANGED <<phase, pool, products, departments, pending>>

\* connection_pool.putconn(connection): a usable connection goes back to the
\* idle list while fewer than minconn are idle, otherwise it is closed
PutConnection(p, broken) ==
    [p EXCEPT !.used = p.used - 1,
              !.idle = IF ~broken /\ p.idle < minconn THEN p.idle + 1 ELSE p.idle]

\* the same scope written without the finally clause: the connection goes
\* back on the normal path only
PutConnMutant ==
    /\ req.pc = "release"
    /\ IF req.exc = "none"
       THEN /\ pool' = PutConnection(pool, req.broken)
            /\ req' = [req EXCEPT !.pc = "resume", !.held = req.held - 1,
                                  !.broken = FALSE]
       ELSE /\ pool' = pool
            /\ req' = [req EXCEPT !.pc = "resume", !.broken = FALSE,
                                  !.logged = req.logged \/ QueryLayerLogs(req.op)]
    /\ UNCHANGED <<phase, products, departments, pending>>

\* leaving the with block: rollback on the exception path, putconn on every
\* path (finally); then the query-layer function returns or logs and re-raises
PutConn ==
    /\ req.pc = "release"
    /\ pool' = PutConnection(pool, req.broken)
    /\ req' = [req EXCEPT !.pc = "resume", !.held = req.held - 1,
                          !.broken = FALSE,
                          !.logged = req.logged \/
                                     (req.exc # "none" /\ QueryLayerLogs(req.op))]
    /\ UNCHANGED <<phase, products, departments, pending>>

(***************************************************************************)
(* Handlers.  A handler starts when the event loop takes its request       *)
(* (Dispatch...), and continues when a query-layer call returns or raises  *)
(* (...After..., ...Resume).                                               *)
(***************************************************************************)
IsPsycopgError(kind) == kind \in {"db", "pool"}

Resumes(endpoint, op) ==
    req.pc = "resume" /\ req.endpoint = endpoint /\ req.op = op

\* logger.error(...) in a handler's except clause
Logged(r) == [r EXCEPT !.logged = TRUE]

\* GET /health
DispatchHealth ==
    /\ LoopFree
    /\ pending' = pending - 1
    /\ req' = Call(NewRequest("health", 0, 0, Wide(0)), "health")
    /\ UNCHANGED <<phase, pool, products, departments>>

HealthResume ==
    /\ Resumes("health", "health")
    /\ req' = IF req.exc = "none"
              THEN Respond(req, Response(200, "bare", FALSE, ""))
              ELSE Respond(req, Response(503, "bare", FALSE, ExceptionText(req.exc)))
    /\ UNCHANGED <<phase, pool, products, departments, pending>>

\* GET /api/products?page=&limit=
DispatchGetProducts ==
    /\ LoopFree
    /\ pending' = pending - 1
    /\ \E page \in Pages, limit \in Limits :
         LET r == NewRequest("products", page, limit, Wide(0))
         IN  req' =
               IF ~ValidQuery(page, limit)
               THEN Respond(r, RenderValidationError)
               ELSE IF PageTooLarge(page)
               THEN Respond(r, RenderHTTPException(400, "detail_object",
                        "Page number is too large. Maximum allowed page is 1,000,000."))
               ELSE Call([r EXCEPT !.offset = Offset(page, limit)], "count")
    /\ UNCHANGED <<phase, pool, products, departments>>

GetProductsError(r) ==
    Respond(Logged(r),
            RenderHTTPException(500, "detail_object",
                IF IsPsycopgError(r.exc)
                THEN "Database error occurred while fetching products."
                ELSE "An unexpected error occurred."))

GetProductsAfterCount ==
    /\ Resumes("products", "count")
    /\ req' =
         IF req.exc # "none" THEN GetProductsError(req)
         ELSE IF req.total_products > 0
         THEN IF PageOutOfRange(req.page, TotalPages(req.total_products, req.limit))
              THEN Respond(req, RenderHTTPException(404, "detail_object", "Page not found."))
              ELSE Call(req, "list")
         ELSE Respond(req,
                [Response(200, "envelope", TRUE, "") EXCEPT
                   !.pagination =
                      [current_page |-> req.page, total_pages |-> 0,
                       total_products |-> 0,
                       has_next_page |-> FALSE, has_prev_page |-> FALSE,
                       limit |-> req.limit, offset |-> req.offset]])
    /\ UNCHANGED <<phase, pool, products, departments, pending>>

\* the same handler checking the page again after the listing query: an
\* empty page is answered 404
GetProductsAfterListMutant ==
    /\ Resumes("products", "list")
    /\ req' =
         IF req.exc # "none" THEN GetProductsError(req)
         ELSE IF req.rows = << >>
         THEN Respond(req, RenderHTTPException(404, "detail_object", "Page not found."))
         ELSE LET total_pages == TotalPages(req.total_products, req.limit)
              IN  Respond(req,
                    [Response(200, "envelope", TRUE, "") EXCEPT
                       !.products = req.rows,
                       !.pagination =
                          [current_page |-> req.page, total_pages |-> total_pages,
                           total_products |-> req.total_products,
                           has_next_page |-> req.page < total_pages,
                           has_prev_page |-> req.page > 1,
                           limit |-> req.limit, offset |-> req.offset]])
    /\ UNCHANGED <<phase, pool, products, departments, pending>>

GetProductsAfterList ==
    /\ Resumes("products", "list")
    /\ req' =
         IF req.exc # "none" THEN GetProductsError(req)
         ELSE LET total_pages == TotalPages(req.total_products, req.limit)
              IN  Respond(req,
                    [Response(200, "envelope", TRUE, "") EXCEPT
                       !.products = req.rows,
                       !.pagination =
                          [current_page |-> req.page, total_pages |-> total_pages,
                           total_products |-> req.total_products,
                           has_next_page |-> req.page < total_pages,
                           has_prev_page |-> req.page > 1,
                           limit |-> req.limit, offset |-> req.offset]])
    /\ UNCHANGED <<phase, pool, products, departments, pending>>

\* GET /api/products/{product_id}
DispatchGetProduct ==
    /\ LoopFree
    /\ pending' = pending - 1
    /\ \E product_id \in RequestIds :
         LET r == NewRequest("product", 0, 0, product_id)
         IN  req' =
               IF InvalidProductId(product_id)
               THEN Respond(r, RenderHTTPException(400, "detail_object",
                        IF ~WideLess(Wide(0), product_id)
                        THEN "Invalid product ID. Product ID must be a positive integer."
                        ELSE "Product ID is too large."))
               ELSE Call(r, "byid")
    /\ UNCHANGED <<phase, pool, products, departments>>

\* the same handler with the store error swallowed: a failed lookup is
\* treated like a lookup that found no row
GetProductResumeMutant ==
    /\ Resumes("product", "byid")
    /\ req' =
         IF req.exc # "none" \/ req.rows = << >>
         THEN Respond(req, RenderHTTPException(404, "detail_object", "Product not found."))
         ELSE Respond(req, [Response(200, "envelope", TRUE, "") EXCEPT
                              !.products = req.rows])
    /\ UNCHANGED <<phase, pool, products, departments, pending>>

GetProductResume ==
    /\ Resumes("product", "byid")
    /\ req' =
         IF req.exc # "none"
         THEN Respond(Logged(req),
                RenderHTTPException(500, "detail_object",
                    IF IsPsycopgError(req.exc)
                    THEN "Database error occurred while fetching product."
                    ELSE "An unexpected error occurred."))
         ELSE IF req.rows = << >>
         THEN Respond(req, RenderHTTPException(404, "detail_object", "Product not found."))
         ELSE Respond(req, [Response(200, "envelope", TRUE, "") EXCEPT
                              !.products = req.rows])
    /\ UNCHANGED <<phase, pool, products, departments, pending>>

\* GET /api/departments
DispatchGetDepartments ==
    /\ LoopFree
    /\ pending' = pending - 1
    /\ req' = Call(NewRequest("departments", 0, 0, Wide(0)), "depts")
    /\ UNCHANGED <<phase, pool, products, departments>>

GetDepartmentsResume ==
    /\ Resumes("departments", "depts")
    /\ req' =
         IF req.exc # "none"
         THEN Respond(Logged(req),
                RenderHTTPException(500, "detail_string", "Error fetching departments"))
         ELSE Respond(req, [Response(200, "bare", FALSE, "") EXCEPT
                              !.departments = req.depts])
    /\ UNCHANGED <<phase, pool, products, departments, pending>>

\* GET /api/departments/{dept_id}
DispatchGetDepartment ==
    /\ LoopFree
    /\ pending' = pending - 1
    /\ \E dept_id \in RequestDeptIds :
         req' = Call(NewRequest("department", 0, 0, dept_id), "dept")
    /\ UNCHANGED <<phase, pool, products, departments>>

GetDepartmentResume ==
    /\ Resumes("department", "dept")
    /\ req' =
         IF req.exc # "none"
         THEN Respond(Logged(req),
                RenderHTTPException(500, "detail_string", "Error fetching department"))
         ELSE IF req.depts = << >>
         THEN Respond(req, RenderHTTPException(404, "detail_string", "Department not found"))
         ELSE Respond(req, [Response(200, "bare", FALSE, "") EXCEPT
                              !.departments = req.depts])
    /\ UNCHANGED <<phase, pool, products, departments, pending>>

\* GET /api/departments/{dept_id}/products
DispatchGetDepartmentProducts ==
    /\ LoopFree
    /\ pending' = pending - 1
    /\ \E dept_id \in RequestDeptIds :
         req' = Call(NewRequest("deptproducts", 0, 0, dept_id), "dept")
    /\ UNCHANGED <<phase, pool, products, departments>>

GetDepartmentProductsError(r) ==
    Respond(Logged(r),
            RenderHTTPException(500, "detail_string", "Error fetching department products"))

GetDepartmentProductsAfterDepartment ==
    /\ Resumes("deptproducts", "dept")
    /\ req' =
         IF req.exc # "none" THEN GetDepartmentProductsError(req)
         ELSE IF req.depts = << >>
         THEN Respond(req, RenderHTTPException(404, "detail_string", "Department not found"))
         ELSE Call(req, "deptproducts")
    /\ UNCHANGED <<phase, pool, products, departments, pending>>

\* the same handler answering 404 when the department has no product rows
GetDepartmentProductsAfterProductsMutant ==
    /\ Resumes("deptproducts", "deptproducts")
    /\ req' =
         IF req.exc # "none" THEN GetDepartmentProductsError(req)
         ELSE IF req.rows = << >>
         THEN Respond(req, RenderHTTPException(404, "detail_string", "Department not found"))
         ELSE Respond(req, [Response(200, "bare", FALSE, "") EXCEPT
                              !.department = req.depts[1].name,
                              !.products = req.rows])
    /\ UNCHANGED <<phase, pool, products, departments, pending>>

GetDepartmentProductsAfterProducts ==
    /\ Resumes("deptproducts", "deptproducts")
    /\ req' =
         IF req.exc # "none" THEN GetDepartmentProductsError(req)
         ELSE Respond(req, [Response(200, "bare", FALSE, "") EXCEPT
                              !.department = req.depts[1].name,
                              !.products = req.rows])
    /\ UNCHANGED <<phase, pool, products, departments, pending>>

\* the response is sent; the event loop is free for the next request
Finish ==
    /\ req.pc = "done"
    /\ req' = NoRequest
    /\ UNCHANGED <<phase, pool, products, departments, pending>>

(***************************************************************************)
(* Specifications.                                                         *)
(***************************************************************************)
HandlerStep ==
    \/ DispatchHealth \/ HealthResume
    \/ DispatchGetProducts \/ GetProductsAfterCount \/ GetProductsAfterList
    \/ DispatchGetProduct \/ GetProductResume
    \/ DispatchGetDepartments \/ GetDepartmentsResume
    \/ DispatchGetDepartment \/ GetDepartmentResume
    \/ DispatchGetDepartmentProducts
    \/ GetDepartmentProductsAfterDepartment \/ GetDepartmentProductsAfterProducts
    \/ GetConn \/ Execute \/ PutConn
    \/ Finish

ServerStep == StartupOk \/ StartupFails \/ Shutdown \/ Arrive \/ HandlerStep

\* the server with the store's other writers
Next == ServerStep \/ ExternalInsert \/ ExternalDelete

Spec == Init /\ [][Next]_vars

\* the server over a catalog nobody else writes
SpecQuiet == Init /\ [][ServerStep]_vars

(***************************************************************************)
(* Properties.                                                             *)
(***************************************************************************)
Answered(endpoint) == req.pc = "done" /\ req.endpoint = endpoint

\* ceil(N / L) by its meaning: the least k with k * L >= N
Ceiling(N, L) ==
    CHOOSE k \in 0..N : k * L >= N /\ \A j \in 0..N : j * L >= N => k <= j

\* the count query of the running GET /api/products has returned a number
CountReturned ==
    /\ req.endpoint = "products"
    /\ req.queries # << >>
    /\ ~(req.op = "count" /\ req.exc # "none")

\* C1: every 200 answer of GET /api/products reports the count it read as
\* total_products and total_pages = ceil(total_products / limit), the limit
\* being in 1..100; when the count is 0 it reports total_pages = 0 and an
\* empty product list, whatever page was requested.
C1_TotalPagesIsCeiling ==
    (Answered("products") /\ req.resp.status = 200) =>
        LET N == req.resp.pagination.total_products
            L == req.limit
        IN  /\ L \in 1..MaxLimit
            /\ N = req.total_products
            /\ req.resp.pagination.total_pages = Ceiling(N, L)
            /\ N = 0 => /\ req.resp.pagination.total_pages = 0
                        /\ req.resp.products = << >>

\* a 200 answer whose total is not a multiple of the limit (ceiling and
\* floor differ)
C1_Witness ==
    /\ Answered("products")
    /\ req.resp.status = 200
    /\ req.total_products % req.limit # 0
    /\ req.resp.pagination.total_pages = (req.total_products \div req.limit) + 1

\* C2: once the count query of GET /api/products has returned N: if N > 0
\* and page > ceil(N / limit) the answer is 404 and no listing query is
\* issued; if N = 0 the answer is 200 with an empty list, never 404, and
\* again no listing query is issued.
C2_BoundaryDistinction ==
    (Answered("products") /\ CountReturned) =>
        LET N == req.total_products
        IN  /\ (N > 0 /\ req.page > Ceiling(N, req.limit)) =>
                  /\ req.resp.status = 404
                  /\ req.queries = <<"count">>
            /\ N = 0 =>
                  /\ req.resp.status = 200
                  /\ req.resp.products = << >>
                  /\ req.queries = <<"count">>

\* page beyond the range of a non-empty catalog: 404
C2_Witness ==
    /\ Answered("products")
    /\ CountReturned
    /\ req.total_products > 0
    /\ req.page > Ceiling(req.total_products, req.limit)
    /\ req.resp.status = 404

\* C3: over a catalog of N products that nobody writes during the request,
\* a 200 answer of GET /api/products for a page in 1..total_pages carries
\* min(L, N - (page - 1) * L) products.
C3_PageLength ==
    LET N == Cardinality(products)
        L == req.limit
    IN  (/\ Answered("products")
         /\ req.resp.status = 200
         /\ req.page \in 1..Ceiling(N, L))
        => /\ req.resp.pagination.total_products = N
           /\ Len(req.resp.products) = Min(L, N - (req.page - 1) * L)

\* the last page, shorter than the limit
C3_Witness ==
    /\ Answered("products")
    /\ req.resp.status = 200
    /\ req.page > 1
    /\ req.page = Ceiling(Cardinality(products), req.limit)
    /\ Len(req.resp.products) > 0
    /\ Len(req.resp.products) < req.limit

\* C4: GET /api/products with page > 1,000,000 (and a limit in 1..100) is
\* answered 400 whatever the catalog holds, without acquiring a connection
\* and without issuing any query.
C4_PageTooLargeIs400 ==
    (/\ req.endpoint = "products"
     /\ req.page > MaxPageNumber
     /\ req.limit \in 1..MaxLimit)
    => /\ req.pc = "done"
       /\ req.resp.status = 400
       /\ req.queries = << >>
       /\ req.acquired = 0
       /\ req.held = 0

\* page 1,000,001 asked of an empty catalog
C4_Witness ==
    /\ Answered("products")
    /\ req.page > MaxPageNumber
    /\ req.limit \in 1..MaxLimit
    /\ products = {}
    /\ req.resp.status = 400

\* C5: GET /api/products/{id} with id <= 0 or id > 2147483647 is answered
\* 400 without acquiring a connection and without issuing any query.
C5_InvalidIdIs400 ==
    (/\ req.endpoint = "product"
     /\ \/ req.id.hi < 0
        \/ req.id = Wide(0)
        \/ WideLess(Wide(PgIntegerMax), req.id))
    => /\ req.pc = "done"
       /\ req.resp.status = 400
       /\ req.queries = << >>
       /\ req.acquired = 0
       /\ req.held = 0

\* id 2147483648 is refused
C5_Witness ==
    /\ Answered("product")
    /\ req.id = WideSucc(Wide(PgIntegerMax))
    /\ req.resp.status = 400

\* C6: outside the with block of a query operation no connection is checked
\* out: whenever a query-layer call has returned or raised, and whenever a
\* request has been answered, the request holds nothing and the pool has no
\* connection in use.
C6_ScopedRelease ==
    req.pc \notin {"execute", "release"} => (req.held = 0 /\ pool.used = 0)

\* a request answered after a query raised on an acquired connection
C6_Witness ==
    /\ req.pc = "done"
    /\ req.acquired > 0
    /\ req.exc \in {"db", "other"}
    /\ Len(req.queries) = req.acquired
    /\ pool.used = 0

\* C7: however many requests are in flight, none fails because the pool is
\* exhausted: requests beyond the one being served stay queued and getconn
\* never raises PoolError.
C7_ExcessRequestsWait ==
    /\ req.exc # "pool"
    /\ pool.used <= 1
    /\ InFlight > maxconn => pending >= maxconn

\* more requests in flight than maxconn, and the one being served succeeds
C7_Witness ==
    /\ InFlight > maxconn
    /\ req.pc = "done"
    /\ req.acquired > 0
    /\ req.resp.status = 200

\* C8: a request holds at most one connection, every acquisition serves at
\* most one query and is released before the next one, and the pool never
\* has more than maxconn connections in use.
C8_OneConnectionOneQuery ==
    /\ req.held <= 1
    /\ req.held = (IF req.pc \in {"execute", "release"} THEN 1 ELSE 0)
    /\ pool.used <= maxconn
    /\ Len(req.queries) <= req.acquired
    /\ req.pc = "execute" => Len(req.queries) = req.acquired - 1
    /\ req.pc = "release" => Len(req.queries) = req.acquired

\* the second query of a request runs on a second acquisition
C8_Witness ==
    /\ req.endpoint = "deptproducts"
    /\ req.op = "deptproducts"
    /\ req.pc = "release"
    /\ req.acquired = 2
    /\ req.queries = <<"dept", "deptproducts">>
    /\ req.held = 1

ExceptionTexts == {ExceptionText(kind) : kind \in {"db", "pool", "other"}}

\* C9 (as claimed): no answer of any endpoint, /health included, carries
\* the text of the exception, and a failure that was answered was logged.
C9_NoExceptionTextInBody ==
    req.pc = "done" =>
        /\ req.resp.error \notin ExceptionTexts
        /\ req.exc # "none" => req.logged

\* C10 (as claimed): page < 1, limit < 1 or limit > 100 is answered 400.
C10_InvalidQueryIs400 ==
    (/\ Answered("products")
     /\ (req.page < 1 \/ req.limit < 1 \/ req.limit > MaxLimit))
    => req.resp.status = 400

\* C10 (amended): page < 1, limit < 1 or limit > 100 is answered 422 by the
\* parameter validation, before the handler body runs: no connection is
\* acquired and no query is issued.
C10_InvalidQueryIs422 ==
    (/\ req.endpoint = "products"
     /\ (req.page < 1 \/ req.limit < 1 \/ req.limit > MaxLimit))
    => /\ req.pc = "done"
       /\ req.resp.status = 422
       /\ req.queries = << >>
       /\ req.acquired = 0
       /\ req.held = 0

\* page 0 is refused
C10_Witness ==
    /\ Answered("products")
    /\ req.page = 0
    /\ req.limit \in 1..MaxLimit
    /\ req.resp.status = 422

\* C11: GET /api/products/{id} with a valid id answers by the outcome of
\* the lookup: a store failure (getconn or the query raising) gives 500; a
\* lookup that returned no row gives 404; a lookup that returned a row gives
\* 200 carrying exactly that row, whose id is the requested one.
C11_ThreeOutcomes ==
    (/\ Answered("product")
     /\ WideLess(Wide(0), req.id)
     /\ ~WideLess(Wide(PgIntegerMax), req.id))
    => /\ req.exc # "none" => req.resp.status = 500
       /\ (req.exc = "none" /\ req.rows = << >>) =>
             /\ req.resp.status = 404
             /\ req.queries = <<"byid">>
       /\ (req.exc = "none" /\ req.rows # << >>) =>
             /\ req.resp.status = 200
             /\ req.resp.products = req.rows
             /\ Len(req.rows) = 1
             /\ req.rows[1].id = Narrow(req.id)

\* the query raised on a lookup of an existing product: 500
C11_Witness ==
    /\ Answered("product")
    /\ req.queries = <<"byid">>
    /\ Narrow(req.id) \in products
    /\ req.exc = "db"
    /\ req.queries = <<"byid">>
    /\ req.resp.status = 500

\* the department lookup of the running request has returned (a row or none)
DepartmentLookedUp ==
    /\ req.queries # << >>
    /\ ~(req.op = "dept" /\ req.exc # "none")

\* C12: GET /api/departments/{id}/products, once the department lookup has
\* returned: for an id that is no department the answer is 404 and the
\* products-by-department query is never issued; for a department whose
\* product query returned, the answer is 200 with the department's name and
\* exactly the rows returned, an empty list included.
C12_EmptyDepartmentIs200 ==
    (Answered("deptproducts") /\ DepartmentLookedUp) =>
        /\ Narrow(req.id) \notin DOMAIN departments =>
              /\ req.resp.status = 404
              /\ req.queries = <<"dept">>
        /\ (Narrow(req.id) \in DOMAIN departments /\ req.exc = "none") =>
              /\ req.queries = <<"dept", "deptproducts">>
              /\ req.resp.status = 200
              /\ req.resp.department = DepartmentName(Narrow(req.id))
              /\ req.resp.products = req.rows
              /\ \A k \in 1..Len(req.rows) :
                    req.rows[k].department = DepartmentName(Narrow(req.id))

\* an existing department without product rows: 200 with products = []
C12_Witness ==
    /\ Answered("deptproducts")
    /\ Narrow(req.id) \in DOMAIN departments
    /\ {i \in products : ProductDepartment(i) = Narrow(req.id)} = {}
    /\ req.exc = "none"
    /\ req.resp.status = 200
    /\ req.resp.products = << >>

\* C13: no request is accepted and no handler runs unless the pool was
\* created; a failed startup is final (the application never serves) and
\* leaves no pool; after shutdown the pool is closed with no connection left.
C13_FailFastStartup ==
    /\ [](phase = "serving" => pool.state = "open")
    /\ []((req.pc # "idle" \/ pending > 0) => phase = "serving")
    /\ [](phase = "failed" => pool.state = "none")
    /\ [](phase = "stopped" =>
            pool = [state |-> "closed", used |-> 0, idle |-> 0])
    /\ [][phase = "failed" => phase' = "failed"]_vars
    /\ [][phase = "stopped" => phase' = "stopped"]_vars

\* pool creation failed: nothing is served
C13_Witness ==
    /\ phase = "failed"
    /\ pool.state = "none"
    /\ pending = 0
    /\ req = NoRequest

\* C14: a 200 answer of GET /api/products over a non-empty count carries
\* offset = (page - 1) * limit, has_next_page = (page < total_pages),
\* has_prev_page = (page > 1), current_page = page and limit = the requested
\* limit, and the listing query was issued with that limit and offset; over
\* a count of 0 has_next_page and has_prev_page are both false for any page.
C14_PaginationMetadata ==
    (Answered("products") /\ req.resp.status = 200) =>
        LET p == req.resp.pagination
        IN  /\ p.current_page = req.page
            /\ p.limit = req.limit
            /\ p.offset = (req.page - 1) * req.limit
            /\ req.offset = p.offset
            /\ p.total_products > 0 =>
                  /\ p.has_next_page = (req.page < Ceiling(p.total_products, req.limit))
                  /\ p.has_prev_page = (req.page > 1)
            /\ p.total_products = 0 =>
                  /\ ~p.has_next_page
                  /\ ~p.has_prev_page

\* a middle page: both a next and a previous page
C14_Witness ==
    /\ Answered("products")
    /\ req.resp.status = 200
    /\ req.resp.pagination.has_next_page
    /\ req.resp.pagination.has_prev_page
    /\ req.resp.pagination.offset > 0

\* C15 (as claimed): every answer of the two product endpoints has the
\* top-level body {success: true, data} on success and {success: false,
\* error: <message>} on a 400, 404 or 500.
C15_UniformEnvelope ==
    (Answered("products") \/ Answered("product")) =>
        /\ req.resp.status \in {200, 400, 404, 500} => req.resp.shape = "envelope"
        /\ req.resp.status = 200 => req.resp.success
        /\ req.resp.status \in {400, 404, 500} =>
              (~req.resp.success /\ req.resp.error # "")

\* the product_count the rows of table products would give for department d
LiveCount(d) == Cardinality({i \in products : ProductDepartment(i) = d})

\* every department row of the answer is the stored row, product_count included
StoredDepartments ==
    \A k \in 1..Len(req.resp.departments) :
        LET row == req.resp.departments[k]
        IN  /\ row.id \in DOMAIN departments
            /\ row.name = DepartmentName(row.id)
            /\ row.product_count = departments[row.id]

\* C16: a step that changes the rows of products or of departments is never
\* a step of the server (it leaves the running request, the queue, the pool
\* and the lifespan untouched: it is another client's write), and the
\* department endpoints answer with the stored product_count.
C16_ReadOnly ==
    /\ [][(products' # products \/ departments' # departments) =>
            (req' = req /\ pending' = pending /\ pool' = pool /\ phase' = phase)]_vars
    /\ []((Answered("departments") /\ req.resp.status = 200) =>
            /\ Len(req.resp.departments) = Cardinality(DOMAIN departments)
            /\ StoredDepartments)
    /\ []((Answered("department") /\ req.resp.status = 200) =>
            /\ Len(req.resp.departments) = 1
            /\ req.resp.departments[1].id = Narrow(req.id)
            /\ StoredDepartments)

\* a department listing whose stored product_count differs from the live rows
C16_Witness ==
    /\ Answered("departments")
    /\ req.resp.status = 200
    /\ \E k \in 1..Len(req.resp.departments) :
          req.resp.departments[k].product_count
              # LiveCount(req.resp.departments[k].id)

\* C17: count and listing are two queries with the store's other writers
\* in between: whenever the listing query of GET /api/products returns, the
\* answer is 200 with total_products and total_pages taken from the earlier
\* count and with exactly the rows listed, however many they are (at most
\* limit); the rows may be fewer than min(limit, total_products - offset).
C17_PaginationFromEarlierCount ==
    (Answered("products") /\ req.op = "list" /\ req.exc = "none") =>
        /\ req.queries = <<"count", "list">>
        /\ req.total_products > 0
        /\ req.resp.status = 200
        /\ req.resp.pagination.total_products = req.total_products
        /\ req.resp.pagination.total_pages = Ceiling(req.total_products, req.limit)
        /\ req.resp.products = req.rows
        /\ Len(req.resp.products) <= req.limit

\* rows were deleted between the count and the listing: a 200 answer for a
\* page in range that reports a positive total and carries no product
C17_Witness ==
    /\ Answered("products")
    /\ req.resp.status = 200
    /\ req.resp.pagination.total_products > 0
    /\ req.page <= req.resp.pagination.total_pages
    /\ req.resp.products = << >>
    /\ Len(req.resp.products)
          < Min(req.limit, req.resp.pagination.total_products - req.offset)

\* what GET /api/products lists for page p with limit L over the catalog as
\* it is: the handler's offset handed to the listing query
ListedPage(L, p) == SelectProductsPage(products, L, Offset(p, L))

\* pages p..T one after the other
RECURSIVE ListedFrom(_, _, _)
ListedFrom(L, p, T) ==
    IF p > T THEN << >> ELSE ListedPage(L, p) \o ListedFrom(L, p + 1, T)

IdsOf(rows) == {rows[k].id : k \in 1..Len(rows)}

\* C18: over a catalog nobody writes, for every limit L in range: pages
\* 1..total_pages in sequence list the products in strictly ascending id
\* order, the pages are non-empty and pairwise disjoint, and together they
\* are the whole catalog, each product once; and every 200 answer for a page
\* in range is that page: its k-th product is the product with exactly
\* offset + k - 1 smaller ids in the catalog, so the answer is a function of
\* (catalog, page, limit) and a repeated request returns the same products.
C18_StablePagination ==
    /\ \A L \in Limits \cap (1..MaxLimit) :
          LET T == TotalPages(CountProducts(products), L)
              all == ListedFrom(L, 1, T)
          IN  /\ Len(all) = Cardinality(products)
              /\ IdsOf(all) = products
              /\ \A k \in 1..(Len(all) - 1) : all[k].id < all[k + 1].id
              /\ \A p \in 1..T :
                    /\ ListedPage(L, p) # << >>
                    /\ Len(ListedPage(L, p)) <= L
              /\ \A p, q \in 1..T :
                    p # q => IdsOf(ListedPage(L, p)) \cap IdsOf(ListedPage(L, q)) = {}
    /\ (/\ Answered("products")
        /\ req.resp.status = 200
        /\ req.page \in 1..Ceiling(Cardinality(products), req.limit))
       => /\ req.resp.products = ListedPage(req.limit, req.page)
          /\ \A k \in 1..Len(req.resp.products) :
                LET row == req.resp.products[k]
                IN  /\ row.id \in products
                    /\ Cardinality({j \in products : j < row.id})
                          = (req.page - 1) * req.limit + k - 1

\* the middle page of a three-page listing is answered with its one product
C18_Witness ==
    /\ Answered("products")
    /\ req.resp.status = 200
    /\ Cardinality(products) >= 3
    /\ req.limit = 1
    /\ req.page = 2
    /\ Len(req.resp.products) = 1
    /\ Cardinality({j \in products : j < req.resp.products[1].id}) = 1

=============================================================================
